---------------------------- MODULE Spec2Model ----------------------------
(***************************************************************************)
(* Model of src/app.js: the App component of the portfolio blog.           *)
(*                                                                         *)
(* The state is the component's useState cells that the blog logic reads   *)
(* or writes, the collaborators the code talks to (the Firebase auth       *)
(* provider and the Firestore document store), and the asynchronous calls  *)
(* that are suspended at an await.  Every action is one handler, callback  *)
(* or promise continuation of the component; a state update is followed    *)
(* by the re-run of the listener effect of lines 71-90 whenever one of     *)
(* its dependencies changed, as React does after the commit.               *)
(***************************************************************************)
EXTENDS Integers, Sequences, FiniteSets, TLC

(***************************************************************************)
(* Bounds of the model.                                                    *)
(***************************************************************************)
MaxDocs == 2        \* documents ever created in the store (document ids 1..MaxDocs)
MaxTime == 1        \* largest timestamp value (Date.now() ranges over 1..MaxTime)
MaxInflight == 1    \* store calls suspended at an await at the same time
MaxFeedDocs == 3    \* documents other writers add to a collection (FeedSpec)
MaxStamp == 2       \* largest timestamp of a document of another writer (FeedSpec)

(***************************************************************************)
(* Values.                                                                 *)
(***************************************************************************)
NULL == "null"                  \* JavaScript null: userId before sign-in
Uids == {"anon", "tok"}         \* uid of the anonymous user, uid of the custom-token user
Texts == {"", "a"}              \* what can be typed in the title and content inputs
AUTHOR == "Murad Amin"          \* line 105
NoTs == -1                      \* a document without a timestamp field (undefined)
NoId == 0                       \* id of NullPost
Timestamps == {NoTs} \cup (0..MaxStamp)

\* useState(null) for editingPost.  Of the post object that line 481 stores, the
\* code reads id, title and content (lines 115-124, 438-451): those are kept.
NullPost == [id |-> NoId, title |-> "", content |-> ""]
\* useState({ title: '', content: '' }) for newPost
EmptyDraft == [title |-> "", content |-> ""]

VARIABLES
    firebaseConfig,   \* __firebase_config: "empty", "malformed" or "ok"
    pc,               \* the initialization effect: "mount", "halted", "registered" (the
                      \* callback awaits the initial auth state), "running"
    db,               \* TRUE when setDb(firebaseDb) has been called
    isAuthReady,
    userId,
    anonPending,      \* the callback is suspended at await signInAnonymously, line 48
    tokenPending,     \* signInWithCustomToken of line 59 not yet settled
    subs,             \* onSnapshot listeners registered and not unsubscribed
    store,            \* documents of the store, each in the namespace of one uid
    nextId,           \* next document id the store assigns
    posts,
    newPost,
    editingPost,
    showDeleteModal,
    postToDelete,     \* id of the post object held (line 136 reads only its id), NoId for null
    inflight,         \* addDoc / updateDoc / deleteDoc calls suspended at an await
    console           \* what the last step wrote with console.error, "" when nothing

vars == <<firebaseConfig, pc, db, isAuthReady, userId,
          anonPending, tokenPending, subs, store, nextId, posts, newPost,
          editingPost, showDeleteModal, postToDelete, inflight, console>>

envVars == <<firebaseConfig>>
authVars == <<anonPending, tokenPending>>
draftVars == <<newPost, editingPost>>
deleteVars == <<showDeleteModal, postToDelete>>
uiVars == <<draftVars, deleteVars>>
identityVars == <<pc, db, isAuthReady, userId, subs>>
storeVars == <<store, nextId>>

(***************************************************************************)
(* The listener effect, lines 71-90.  React runs the cleanup of the        *)
(* previous run and then the effect again when a dependency changed.       *)
(***************************************************************************)
\* the guard without its userId conjunct
ListenerGuardNoUser(ready, uid, d) == ready /\ d

\* line 72: the guard of the effect
ListenerGuard(ready, uid, d) == ready /\ uid # NULL /\ d

\* a cleanup that leaves the listener of the previous run open
ListenerCleanupKeeps(s, ready, uid, d) == s

\* line 88: the cleanup returned by a run that subscribed
ListenerCleanup(s, ready, uid, d) ==
    IF ListenerGuard(ready, uid, d)
    THEN {x \in s : x.uid # uid}
    ELSE s

\* lines 73-86: the body of a run; the listener starts without an emission
ListenerRun(s, ready, uid, d) ==
    IF ListenerGuard(ready, uid, d)
    THEN s \cup {[uid |-> uid, st |-> "subscribing"]}
    ELSE s

\* line 90: the dependency array [isAuthReady, userId, db]
ListenerEffect(ready2, uid2, d2) ==
    IF <<ready2, uid2, d2>> = <<isAuthReady, userId, db>>
    THEN subs
    ELSE ListenerRun(ListenerCleanup(subs, isAuthReady, userId, db), ready2, uid2, d2)

(***************************************************************************)
(* Initial state: the useState initial values of lines 9-22, before the    *)
(* effects of the first render have run.                                   *)
(***************************************************************************)
Init ==
    /\ firebaseConfig \in {"empty", "malformed", "ok"}
    /\ pc = "mount"
    /\ db = FALSE
    /\ isAuthReady = FALSE
    /\ userId = NULL
    /\ anonPending = FALSE
    /\ tokenPending = FALSE
    /\ subs = {}
    /\ store = {}
    /\ nextId = 1
    /\ posts = <<>>
    /\ newPost = EmptyDraft
    /\ editingPost = NullPost
    /\ showDeleteModal = FALSE
    /\ postToDelete = NoId
    /\ inflight = {}
    /\ console = ""

(***************************************************************************)
(* Firebase initialization and authentication, lines 25-68.                *)
(***************************************************************************)
\* lines 28-34 and 65-67: no configuration, or JSON.parse / initializeApp throws
InitHalt ==
    /\ pc = "mount"
    /\ firebaseConfig # "ok"
    /\ pc' = "halted"
    /\ console' = IF firebaseConfig = "empty"
                  THEN "Firebase config is not available."
                  ELSE "Firebase initialization failed"
    /\ UNCHANGED <<envVars, db, isAuthReady, userId, subs, authVars, storeVars, posts,
                   uiVars, inflight>>

\* lines 36-62: setDb, onAuthStateChanged registered, and custom-token sign-in
\* started when __initial_auth_token is not empty (lines 57-62)
InitFirebase(initialToken) ==
    /\ pc = "mount"
    /\ firebaseConfig = "ok"
    /\ pc' = "registered"
    /\ db' = TRUE
    /\ tokenPending' = (initialToken # "")
    /\ subs' = ListenerEffect(isAuthReady, userId, TRUE)
    /\ console' = ""
    /\ UNCHANGED <<envVars, isAuthReady, userId, anonPending, storeVars, posts, uiVars,
                   inflight>>

\* lines 43-46 and 54: what the callback does when it is called with a user
AuthCallbackUser(uid) ==
    /\ userId' = uid
    /\ isAuthReady' = TRUE
    /\ subs' = ListenerEffect(TRUE, uid, db)

\* lines 43-46 and 54: the provider reports the initial auth state, the user of a
\* session it restored
AuthStateRestored(uid) ==
    /\ pc = "registered"
    /\ pc' = "running"
    /\ AuthCallbackUser(uid)
    /\ console' = ""
    /\ UNCHANGED <<envVars, db, authVars, storeVars, posts, uiVars, inflight>>

\* lines 46-48: the provider reports the initial auth state, no user; the callback
\* suspends at await signInAnonymously
AuthStateNoUser ==
    /\ pc = "registered"
    /\ pc' = "running"
    /\ anonPending' = TRUE
    /\ console' = ""
    /\ UNCHANGED <<envVars, db, isAuthReady, userId, subs, tokenPending, storeVars,
                   posts, uiVars, inflight>>

\* lines 48-49 and 54: signInAnonymously resolved.  The provider calls the callback
\* with the new user (lines 44-45, 54) and the suspended call resumes (lines 49, 54):
\* both set the same uid.
AnonSignInOk ==
    /\ anonPending
    /\ anonPending' = FALSE
    /\ AuthCallbackUser("anon")
    /\ console' = ""
    /\ UNCHANGED <<envVars, pc, db, tokenPending, storeVars, posts, uiVars, inflight>>

\* lines 50-54: signInAnonymously rejected; the error is logged and line 54 runs
AnonSignInFail ==
    /\ anonPending
    /\ anonPending' = FALSE
    /\ console' = "Anonymous sign-in failed"
    /\ isAuthReady' = TRUE
    /\ subs' = ListenerEffect(TRUE, userId, db)
    /\ UNCHANGED <<envVars, pc, db, userId, tokenPending, storeVars, posts, uiVars,
                   inflight>>

\* line 59: signInWithCustomToken resolved after the initial auth state was
\* reported; the provider calls the callback with the user of the token
TokenSignInOk ==
    /\ pc = "running"
    /\ tokenPending
    /\ tokenPending' = FALSE
    /\ AuthCallbackUser("tok")
    /\ console' = ""
    /\ UNCHANGED <<envVars, pc, db, anonPending, storeVars, posts, uiVars, inflight>>

\* lines 59-61: signInWithCustomToken rejected; the error is logged
TokenSignInFail ==
    /\ pc = "running"
    /\ tokenPending
    /\ tokenPending' = FALSE
    /\ console' = "Custom token sign-in failed"
    /\ UNCHANGED <<envVars, identityVars, anonPending, storeVars, posts, uiVars,
                   inflight>>

(***************************************************************************)
(* The feed: onSnapshot callbacks, lines 77-86.                            *)
(***************************************************************************)
\* line 80: { id: doc.id, ...doc.data() }
PostOf(d) == [id |-> d.id, title |-> d.title, content |-> d.content,
              author |-> d.author, timestamp |-> d.timestamp]

\* the documents of the collection artifacts/{appId}/users/{uid}/blogPosts
Collection(uid) == {PostOf(d) : d \in {x \in store : x.ns = uid}}

\* the orders in which snapshot.forEach can visit a set of documents
RECURSIVE Orders(_)
Orders(S) ==
    IF S = {} THEN {<<>>}
    ELSE UNION {{<<x>> \o t : t \in Orders(S \ {x})} : x \in S}

\* line 82: (timestamp || 0)
Key(p) == IF p.timestamp = NoTs THEN 0 ELSE p.timestamp

\* the comparator with its operands exchanged: ascending
CompareAscending(a, b) == Key(a) - Key(b)

\* line 82: the comparator (a, b) => (b.timestamp || 0) - (a.timestamp || 0)
Compare(a, b) == Key(b) - Key(a)

\* an unstable sort: x goes before the elements it ties with
RECURSIVE InsertSortedUnstable(_, _)
InsertSortedUnstable(sorted, x) ==
    IF sorted = <<>> THEN <<x>>
    ELSE IF Compare(Head(sorted), x) >= 0
         THEN <<x>> \o sorted
         ELSE <<Head(sorted)>> \o InsertSortedUnstable(Tail(sorted), x)

\* Array.prototype.sort is stable: x goes before the first element the
\* comparator orders after it
RECURSIVE InsertSorted(_, _)
InsertSorted(sorted, x) ==
    IF sorted = <<>> THEN <<x>>
    ELSE IF Compare(Head(sorted), x) > 0
         THEN <<x>> \o sorted
         ELSE <<Head(sorted)>> \o InsertSorted(Tail(sorted), x)

\* line 82: fetchedPosts.sort(...)
RECURSIVE SortPosts(_)
SortPosts(fetched) ==
    IF fetched = <<>> THEN <<>>
    ELSE InsertSorted(SortPosts(SubSeq(fetched, 1, Len(fetched) - 1)),
                      fetched[Len(fetched)])

\* an emission that is merged into the list: the posts of earlier emissions stay
OnSnapshotNextMerges(s, fetched) ==
    /\ s \in subs
    /\ s.st # "errored"
    /\ fetched \in Orders(Collection(s.uid))
    /\ posts' = SortPosts(fetched \o
                    SelectSeq(posts, LAMBDA p :
                        \A k \in 1..Len(fetched) : fetched[k].id # p.id))
    /\ subs' = (subs \ {s}) \cup {[s EXCEPT !.st = "live"]}
    /\ console' = ""
    /\ UNCHANGED <<envVars, pc, db, isAuthReady, userId, authVars, storeVars, uiVars,
                   inflight>>

\* lines 77-83: the listener s delivers the documents of its collection
OnSnapshotNext(s, fetched) ==
    /\ s \in subs
    /\ s.st # "errored"
    /\ fetched \in Orders(Collection(s.uid))
    /\ posts' = SortPosts(fetched)
    /\ subs' = (subs \ {s}) \cup {[s EXCEPT !.st = "live"]}
    /\ console' = ""
    /\ UNCHANGED <<envVars, pc, db, isAuthReady, userId, authVars, storeVars, uiVars,
                   inflight>>

\* an error callback that empties the list
OnSnapshotErrorClears(s) ==
    /\ s \in subs
    /\ s.st # "errored"
    /\ console' = "Failed to fetch blog posts"
    /\ posts' = <<>>
    /\ subs' = (subs \ {s}) \cup {[s EXCEPT !.st = "errored"]}
    /\ UNCHANGED <<envVars, pc, db, isAuthReady, userId, authVars, storeVars, uiVars,
                   inflight>>

\* lines 84-86: the listener s reports an error; the store ends the listener
OnSnapshotError(s) ==
    /\ s \in subs
    /\ s.st # "errored"
    /\ console' = "Failed to fetch blog posts"
    /\ subs' = (subs \ {s}) \cup {[s EXCEPT !.st = "errored"]}
    /\ UNCHANGED <<envVars, pc, db, isAuthReady, userId, authVars, storeVars, posts,
                   uiVars, inflight>>

\* another writer of the store adds a document to the collection of a user
ForeignWrite(uid, ts) ==
    /\ nextId <= MaxFeedDocs
    /\ store' = store \cup {[ns |-> uid, id |-> nextId, title |-> "a",
                             content |-> "a", author |-> AUTHOR, timestamp |-> ts]}
    /\ nextId' = nextId + 1
    /\ console' = ""
    /\ UNCHANGED <<envVars, identityVars, authVars, posts, uiVars, inflight>>

(***************************************************************************)
(* The views.  The navigation cells mainView, blogView and isMobileMenuOpen *)
(* (lines 9, 10, 18) are written by the navigation buttons alone and read  *)
(* by the render alone: they are left out, and a handler of the admin      *)
(* panel can run whenever the navigation can bring the panel on screen.    *)
(***************************************************************************)
\* lines 544-553: the views are rendered once isAuthReady
AdminVisible == isAuthReady

(***************************************************************************)
(* The drafts, lines 438-481.                                              *)
(***************************************************************************)
\* lines 439 and 446: onChange of the title and content inputs
ChangeInput(field, text) ==
    /\ AdminVisible
    /\ IF editingPost # NullPost
       THEN /\ editingPost' = [editingPost EXCEPT ![field] = text]
            /\ UNCHANGED newPost
       ELSE /\ newPost' = [newPost EXCEPT ![field] = text]
            /\ UNCHANGED editingPost
    /\ console' = ""
    /\ UNCHANGED <<envVars, identityVars, authVars, storeVars, posts, deleteVars,
                   inflight>>

\* line 481: Edit on the i-th post of the list
EditPost(i) ==
    /\ AdminVisible
    /\ i \in 1..Len(posts)
    /\ editingPost' = [id |-> posts[i].id, title |-> posts[i].title,
                       content |-> posts[i].content]
    /\ console' = ""
    /\ UNCHANGED <<envVars, identityVars, authVars, storeVars, posts, newPost,
                   deleteVars, inflight>>

\* line 457: Cancel of the edit form
CancelEdit ==
    /\ AdminVisible
    /\ editingPost # NullPost
    /\ editingPost' = NullPost
    /\ console' = ""
    /\ UNCHANGED <<envVars, identityVars, authVars, storeVars, posts, newPost,
                   deleteVars, inflight>>

(***************************************************************************)
(* The mutations, lines 93-148.                                            *)
(***************************************************************************)
\* a validation that looks at the title alone
DraftInvalidTitleOnly(draft) == draft.title = ""

\* lines 94 and 115: !draft.title || !draft.content
DraftInvalid(draft) == draft.title = "" \/ draft.content = ""

\* the calls in flight are told apart by a number: the smallest one not in use
FreeCall == CHOOSE k \in 1..MaxInflight :
                /\ \A c \in inflight : c.n # k
                /\ \A j \in 1..(k - 1) : \E c \in inflight : c.n = j

\* a store call suspended at its await, with the values its closure holds
Call(op, id, title, content, ts) ==
    [n |-> FreeCall, op |-> op, uid |-> userId, id |-> id, title |-> title,
     content |-> content, timestamp |-> ts]

\* lines 93-107: createPost up to the await of addDoc
CreatePost(now) ==
    /\ AdminVisible
    /\ editingPost = NullPost
    /\ IF DraftInvalid(newPost)
       THEN /\ console' = "Title and content cannot be empty."
            /\ UNCHANGED inflight
       ELSE /\ Cardinality(inflight) < MaxInflight
            /\ inflight' = inflight \cup {Call("add", NoId, newPost.title,
                                               newPost.content, now)}
            /\ console' = ""
    /\ UNCHANGED <<envVars, identityVars, authVars, storeVars, posts, uiVars>>

\* addDoc resolved, and the new post is put in the list at once
AddDocOkEcho(c) ==
    /\ c \in inflight /\ c.op = "add"
    /\ nextId <= MaxDocs
    /\ store' = store \cup {[ns |-> c.uid, id |-> nextId, title |-> c.title,
                             content |-> c.content, author |-> AUTHOR,
                             timestamp |-> c.timestamp]}
    /\ nextId' = nextId + 1
    /\ posts' = <<[id |-> nextId, title |-> c.title, content |-> c.content,
                   author |-> AUTHOR, timestamp |-> c.timestamp]>> \o posts
    /\ newPost' = EmptyDraft
    /\ inflight' = inflight \ {c}
    /\ console' = ""
    /\ UNCHANGED <<envVars, identityVars, authVars, editingPost, deleteVars>>

\* addDoc resolved, and the draft of the create form is left as typed
AddDocOkKeepsDraft(c) ==
    /\ c \in inflight /\ c.op = "add"
    /\ nextId <= MaxDocs
    /\ store' = store \cup {[ns |-> c.uid, id |-> nextId, title |-> c.title,
                             content |-> c.content, author |-> AUTHOR,
                             timestamp |-> c.timestamp]}
    /\ nextId' = nextId + 1
    /\ inflight' = inflight \ {c}
    /\ console' = ""
    /\ UNCHANGED <<envVars, identityVars, authVars, posts, uiVars>>

\* lines 102-108: addDoc resolved
AddDocOk(c) ==
    /\ c \in inflight /\ c.op = "add"
    /\ nextId <= MaxDocs
    /\ store' = store \cup {[ns |-> c.uid, id |-> nextId, title |-> c.title,
                             content |-> c.content, author |-> AUTHOR,
                             timestamp |-> c.timestamp]}
    /\ nextId' = nextId + 1
    /\ newPost' = EmptyDraft
    /\ inflight' = inflight \ {c}
    /\ console' = ""
    /\ UNCHANGED <<envVars, identityVars, authVars, posts, editingPost, deleteVars>>

\* lines 109-111: addDoc rejected
AddDocFail(c) ==
    /\ c \in inflight /\ c.op = "add"
    /\ console' = "Error adding document"
    /\ inflight' = inflight \ {c}
    /\ UNCHANGED <<envVars, identityVars, authVars, storeVars, posts, uiVars>>

\* lines 114-125: updatePost(editingPost.id) up to the await of updateDoc
UpdatePost ==
    /\ AdminVisible
    /\ editingPost # NullPost
    /\ IF DraftInvalid(editingPost)
       THEN /\ console' = "Title and content cannot be empty."
            /\ UNCHANGED inflight
       ELSE /\ Cardinality(inflight) < MaxInflight
            /\ inflight' = inflight \cup {Call("update", editingPost.id,
                                               editingPost.title, editingPost.content,
                                               NoTs)}
            /\ console' = ""
    /\ UNCHANGED <<envVars, identityVars, authVars, storeVars, posts, uiVars>>

\* the fields an update overwrites, the timestamp among them
UpdatedDocRestamps(d, c) ==
    [d EXCEPT !.title = c.title, !.content = c.content, !.timestamp = NoTs]

\* lines 122-125: the fields updateDoc overwrites
UpdatedDoc(d, c) == [d EXCEPT !.title = c.title, !.content = c.content]

\* lines 122-126: updateDoc resolved (the document exists)
UpdateDocOk(c) ==
    /\ c \in inflight /\ c.op = "update"
    /\ \E d \in store : d.ns = c.uid /\ d.id = c.id
    /\ store' = {IF d.ns = c.uid /\ d.id = c.id THEN UpdatedDoc(d, c) ELSE d : d \in store}
    /\ editingPost' = NullPost
    /\ inflight' = inflight \ {c}
    /\ console' = ""
    /\ UNCHANGED <<envVars, identityVars, authVars, nextId, posts, newPost, deleteVars>>

\* updateDoc rejected, and the draft of the edit is dropped
UpdateDocFailClears(c) ==
    /\ c \in inflight /\ c.op = "update"
    /\ console' = "Error updating document"
    /\ editingPost' = NullPost
    /\ inflight' = inflight \ {c}
    /\ UNCHANGED <<envVars, identityVars, authVars, storeVars, posts, newPost,
                   deleteVars>>

\* lines 127-129: updateDoc rejected
UpdateDocFail(c) ==
    /\ c \in inflight /\ c.op = "update"
    /\ console' = "Error updating document"
    /\ inflight' = inflight \ {c}
    /\ UNCHANGED <<envVars, identityVars, authVars, storeVars, posts, uiVars>>

\* lines 145-148: Delete on the i-th post of the list
ShowDeleteConfirmation(i) ==
    /\ AdminVisible
    /\ i \in 1..Len(posts)
    /\ postToDelete' = posts[i].id
    /\ showDeleteModal' = TRUE
    /\ console' = ""
    /\ UNCHANGED <<envVars, identityVars, authVars, storeVars, posts, draftVars,
                   inflight>>

\* line 574: Cancel of the confirmation prompt
CancelDelete ==
    /\ showDeleteModal
    /\ showDeleteModal' = FALSE
    /\ console' = ""
    /\ UNCHANGED <<envVars, identityVars, authVars, storeVars, posts, draftVars,
                   postToDelete, inflight>>

\* lines 132-137: deletePost (Delete of the prompt) up to the await of deleteDoc
DeletePost ==
    /\ showDeleteModal
    /\ postToDelete # NoId
    /\ Cardinality(inflight) < MaxInflight
    /\ inflight' = inflight \cup {Call("delete", postToDelete, "", "", NoTs)}
    /\ console' = ""
    /\ UNCHANGED <<envVars, identityVars, authVars, storeVars, posts, uiVars>>

\* lines 137-139: deleteDoc resolved
DeleteDocOk(c) ==
    /\ c \in inflight /\ c.op = "delete"
    /\ store' = {d \in store : ~(d.ns = c.uid /\ d.id = c.id)}
    /\ showDeleteModal' = FALSE
    /\ postToDelete' = NoId
    /\ inflight' = inflight \ {c}
    /\ console' = ""
    /\ UNCHANGED <<envVars, identityVars, authVars, nextId, posts, draftVars>>

\* deleteDoc rejected, and the prompt is closed all the same
DeleteDocFailCloses(c) ==
    /\ c \in inflight /\ c.op = "delete"
    /\ console' = "Error deleting document"
    /\ showDeleteModal' = FALSE
    /\ postToDelete' = NoId
    /\ inflight' = inflight \ {c}
    /\ UNCHANGED <<envVars, identityVars, authVars, storeVars, posts, draftVars>>

\* lines 140-142: deleteDoc rejected
DeleteDocFail(c) ==
    /\ c \in inflight /\ c.op = "delete"
    /\ console' = "Error deleting document"
    /\ inflight' = inflight \ {c}
    /\ UNCHANGED <<envVars, identityVars, authVars, storeVars, posts, uiVars>>

(***************************************************************************)
(* The component.                                                          *)
(***************************************************************************)
Next ==
    \/ InitHalt
    \/ \E t \in {"", "token"} : InitFirebase(t)
    \/ \E u \in Uids : AuthStateRestored(u)
    \/ AuthStateNoUser
    \/ AnonSignInOk
    \/ AnonSignInFail
    \/ TokenSignInOk
    \/ TokenSignInFail
    \/ \E s \in subs : \E f \in Orders(Collection(s.uid)) : OnSnapshotNext(s, f)
    \/ \E s \in subs : OnSnapshotError(s)
    \/ \E f \in {"title", "content"}, t \in Texts : ChangeInput(f, t)
    \/ \E i \in 1..MaxDocs : EditPost(i)
    \/ CancelEdit
    \/ \E now \in 1..MaxTime : CreatePost(now)
    \/ \E c \in inflight : AddDocOk(c)
    \/ \E c \in inflight : AddDocFail(c)
    \/ UpdatePost
    \/ \E c \in inflight : UpdateDocOk(c)
    \/ \E c \in inflight : UpdateDocFail(c)
    \/ \E i \in 1..MaxDocs : ShowDeleteConfirmation(i)
    \/ CancelDelete
    \/ DeletePost
    \/ \E c \in inflight : DeleteDocOk(c)
    \/ \E c \in inflight : DeleteDocFail(c)

Spec == Init /\ [][Next]_vars

(***************************************************************************)
(* The feed alone: the component after a bootstrap that signed in          *)
(* anonymously (InitFirebase, AuthStateNoUser, AnonSignInOk), its listener *)
(* registered, and a collection that other writers fill with documents of  *)
(* any timestamp, also none.                                               *)
(***************************************************************************)
FeedInit ==
    /\ firebaseConfig = "ok"
    /\ pc = "running"
    /\ db = TRUE
    /\ isAuthReady = TRUE
    /\ userId = "anon"
    /\ anonPending = FALSE
    /\ tokenPending = FALSE
    /\ subs = {[uid |-> "anon", st |-> "subscribing"]}
    /\ store = {}
    /\ nextId = 1
    /\ posts = <<>>
    /\ newPost = EmptyDraft
    /\ editingPost = NullPost
    /\ showDeleteModal = FALSE
    /\ postToDelete = NoId
    /\ inflight = {}
    /\ console = ""

FeedNext ==
    \/ \E ts \in Timestamps : ForeignWrite("anon", ts)
    \/ \E s \in subs : \E f \in Orders(Collection(s.uid)) : OnSnapshotNext(s, f)
    \/ \E s \in subs : OnSnapshotError(s)

FeedSpec == FeedInit /\ [][FeedNext]_vars

(***************************************************************************)
(* The editor alone: the component after the same anonymous bootstrap, with *)
(* one more text to type, so that an update changes what is stored.  The   *)
(* identity is settled, and nothing is deleted.                            *)
(***************************************************************************)
EditTexts == Texts \cup {"b"}

EditNext ==
    \/ \E s \in subs : \E f \in Orders(Collection(s.uid)) : OnSnapshotNext(s, f)
    \/ \E f \in {"title", "content"}, t \in EditTexts : ChangeInput(f, t)
    \/ \E i \in 1..MaxDocs : EditPost(i)
    \/ CancelEdit
    \/ \E now \in 1..MaxTime : CreatePost(now)
    \/ \E c \in inflight : AddDocOk(c)
    \/ \E c \in inflight : AddDocFail(c)
    \/ UpdatePost
    \/ \E c \in inflight : UpdateDocOk(c)
    \/ \E c \in inflight : UpdateDocFail(c)

EditSpec == FeedInit /\ [][EditNext]_vars

(***************************************************************************)
(* The properties.                                                         *)
(***************************************************************************)
\* a step in which the listener s hands an emission to the success callback
EmissionStep == \E s \in subs : \E f \in Orders(Collection(s.uid)) : OnSnapshotNext(s, f)

\* (timestamp or 0) of a post
TsOrZero(p) == IF p.timestamp = NoTs THEN 0 ELSE p.timestamp

\* the place of the post with this id in a list
PlaceOf(list, id) == CHOOSE k \in 1..Len(list) : list[k].id = id

\* C1: a createPost or updatePost whose Draft has an empty title or an empty
\* content issues no write: no addDoc or updateDoc call is ever in flight, and no
\* document is ever stored, with an empty title or an empty content.
C1_NoWriteOfInvalidDraft ==
    /\ \A c \in inflight : c.op \in {"add", "update"} => c.title # "" /\ c.content # ""
    /\ \A d \in store : d.title # "" /\ d.content # ""

\* C1 witness: a Draft with a title and no content was submitted and rejected,
\* after an earlier post had been stored, and nothing is in flight.
C1_Witness ==
    /\ console = "Title and content cannot be empty."
    /\ newPost.title # "" /\ newPost.content = ""
    /\ store # {}
    /\ inflight = {}

\* C2 (as claimed): while userId is null no store call is issued, so no call in
\* flight was built from a null identity.
C2_NoCallWithoutIdentity == \A c \in inflight : c.uid # NULL

\* C3 (as claimed): once userId is set it never changes to a different value.
C3_IdentityImmutable == [][userId # NULL => userId' = userId]_vars

\* C4 (as claimed): when anonymous sign-in has failed and no identity is
\* established, isAuthReady is not true.
C4_FailureKeepsLoading ==
    (console = "Anonymous sign-in failed" /\ userId = NULL) => ~isAuthReady

\* C5: every open subscription was opened with isAuthReady, a non-null userId and
\* a non-null db, and listens to the collection of the current userId; without
\* configuration, and without identity, there is none.
C5_SubscriptionNeedsIdentity ==
    /\ \A s \in subs : isAuthReady /\ userId # NULL /\ db /\ s.uid = userId
    /\ pc = "halted" => subs = {}
    /\ userId = NULL => subs = {}

\* C5 witness: the identity changed from the anonymous user, who had stored a
\* post, to the token user, and the one open subscription is the live one of the
\* token user.
C5_Witness ==
    /\ userId = "tok"
    /\ subs = {[uid |-> "tok", st |-> "live"]}
    /\ \E d \in store : d.ns = "anon"

\* C6: posts is sorted by (timestamp or 0), descending, and strictly descending
\* when these values are all distinct.
C6_SortedDescending ==
    /\ \A i \in 1..(Len(posts) - 1) : TsOrZero(posts[i]) >= TsOrZero(posts[i + 1])
    /\ (\A i, j \in 1..Len(posts) : i # j => TsOrZero(posts[i]) # TsOrZero(posts[j]))
         => \A i \in 1..(Len(posts) - 1) : TsOrZero(posts[i]) > TsOrZero(posts[i + 1])

\* C6 witness: an emission of three posts, one without timestamp, was sorted: the
\* store holds them in the other order.
C6_Witness ==
    /\ Len(posts) = 3
    /\ posts[1].timestamp = 2 /\ posts[2].timestamp = 1 /\ posts[3].timestamp = NoTs
    /\ posts[1].id = 3 /\ posts[3].id = 1

\* C7: two posts of one emission whose (timestamp or 0) are equal keep, in posts,
\* the order in which the emission delivered them.
C7_TiesKeepEmissionOrder ==
    [][\A s \in subs : \A f \in Orders(Collection(s.uid)) :
          OnSnapshotNext(s, f) =>
              \A i, j \in 1..Len(f) :
                  (i < j /\ TsOrZero(f[i]) = TsOrZero(f[j]))
                      => PlaceOf(posts', f[i].id) < PlaceOf(posts', f[j].id)]_vars

\* C7 witness: posts holds a post without timestamp before a post of timestamp 0
\* that has a smaller id, and a post of a larger timestamp before both.
C7_Witness ==
    /\ Len(posts) = 3
    /\ posts[1].timestamp = 1
    /\ posts[2].timestamp = NoTs /\ posts[3].timestamp = 0
    /\ posts[2].id > posts[3].id

\* C8: posts changes in no step but an emission; a step that issues or settles
\* a store call, or changes the store, leaves posts as it was, and a document it
\* stores is not in posts after it.
C8_NoLocalEcho ==
    [][/\ posts' # posts => EmissionStep
       /\ (inflight' # inflight \/ store' # store) =>
              /\ posts' = posts
              /\ \A d \in store' \ store :
                     \A i \in 1..Len(posts') : posts'[i].id # d.id]_vars

\* C8 witness: a create succeeded while the subscription is live, and the stored
\* post is not in posts.
C8_Witness ==
    /\ \E s \in subs : s.st = "live" /\ s.uid = userId
    /\ newPost = EmptyDraft
    /\ posts # <<>>
    /\ \E d \in store : d.ns = userId /\ \A i \in 1..Len(posts) : posts[i].id # d.id

\* C9: the step in which the feed reports an error (the error is logged and the
\* listener is ended) leaves posts as it was.
C9_ErrorKeepsSnapshot ==
    [][(console' = "Failed to fetch blog posts"
          \/ \E s \in subs' \ subs : s.st = "errored") => posts' = posts]_vars

\* C9 witness: a live subscription with a snapshot of two posts reported an error.
C9_Witness ==
    /\ console = "Failed to fetch blog posts"
    /\ Len(posts) = 2
    /\ \E s \in subs : s.st = "errored" /\ s.uid = userId

C11_FailureChangesNothing ==
    [][console' \in {"Title and content cannot be empty.", "Error adding document",
                     "Error updating document"}
          => /\ newPost' = newPost
             /\ editingPost' = editingPost
             /\ posts' = posts
             /\ store' = store
             /\ subs' = subs]_vars

\* C11 witness: the updateDoc of an edit was rejected; the draft of the edit, the
\* snapshot and the live subscription are there.
C11_Witness ==
    /\ console = "Error updating document"
    /\ editingPost # NullPost /\ ~DraftInvalid(editingPost)
    /\ posts # <<>>
    /\ \E s \in subs : s.st = "live" /\ s.uid = userId

\* C12: a createPost whose Draft has a title and a content issues exactly one
\* call, an addDoc on the collection of the userId the component holds at the
\* call, with the title and the content of the Draft and the time of the call,
\* and writes nothing yet; when the call resolves, exactly one document is
\* stored, in that collection, with these values and the author "Murad Amin", and
\* newPost is reset to empty title and content.
C12_CreateWritesOnce ==
    [][/\ \A now \in 1..MaxTime :
              (CreatePost(now) /\ newPost.title # "" /\ newPost.content # "") =>
                  /\ store' = store
                  /\ \E c \in inflight' \ inflight :
                         /\ inflight' = inflight \cup {c}
                         /\ c.op = "add" /\ c.uid = userId
                         /\ c.title = newPost.title /\ c.content = newPost.content
                         /\ c.timestamp = now
       /\ \A c \in inflight : AddDocOk(c) =>
              /\ newPost' = [title |-> "", content |-> ""]
              /\ \E d \in store' \ store :
                     /\ store' = store \cup {d}
                     /\ d.ns = c.uid
                     /\ d.title = c.title /\ d.content = c.content
                     /\ d.author = "Murad Amin"
                     /\ d.timestamp = c.timestamp]_vars

\* C12 witness: a create resolved: its post is stored under the current identity
\* with the author label and the time of the call, the create form is empty again
\* and no call is in flight.
C12_Witness ==
    /\ userId \in Uids
    /\ \E d \in store : d.ns = userId /\ d.author = AUTHOR /\ d.timestamp \in 1..MaxTime
                          /\ d.title = "a" /\ d.content = "a"
    /\ newPost = EmptyDraft
    /\ inflight = {}
    /\ posts = <<>>

\* C13: no step changes the id, the author or the timestamp of a stored post;
\* an update that resolves gives the post of its id, in the collection of its
\* call, the title and the content of the call, adds and removes no post and
\* leaves every other post as it was.
C13_UpdateWritesTitleAndContent ==
    [][/\ \A d \in store : \A e \in store' :
              (e.ns = d.ns /\ e.id = d.id) =>
                  e.author = d.author /\ e.timestamp = d.timestamp
       /\ \A c \in inflight : UpdateDocOk(c) =>
              /\ {<<e.ns, e.id>> : e \in store'} = {<<d.ns, d.id>> : d \in store}
              /\ Cardinality(store') = Cardinality(store)
              /\ \E e \in store' : /\ e.ns = c.uid /\ e.id = c.id
                                   /\ e.title = c.title /\ e.content = c.content
              /\ \A d \in store : (d.ns # c.uid \/ d.id # c.id) => d \in store']_vars

\* C13 witness: of two stored posts that were both delivered to posts, one has
\* since been updated to another title; its author and timestamp are the
\* delivered ones, and the other post is as delivered.
C13_Witness ==
    /\ Cardinality(store) = 2 /\ Len(posts) = 2
    /\ editingPost = NullPost
    /\ \E i, j \in 1..2 :
           /\ i # j
           /\ \E d \in store : /\ d.id = posts[i].id
                               /\ d.title = "b" /\ posts[i].title = "a"
                               /\ d.author = posts[i].author
                               /\ d.timestamp = posts[i].timestamp
           /\ \E d \in store : PostOf(d) = posts[j]

\* C14: after an emission posts holds the documents of that emission, each once,
\* and nothing else: nothing of what it held before stays unless the emission
\* delivers it.
C14_WholesaleReplacement ==
    [][\A s \in subs : \A f \in Orders(Collection(s.uid)) :
          OnSnapshotNext(s, f) =>
              /\ Len(posts') = Len(f)
              /\ {posts'[i] : i \in 1..Len(posts')} = {f[k] : k \in 1..Len(f)}]_vars

\* C14 witness: the first of two stored posts was deleted, which its place in
\* posts made possible, and an emission since has left the second post alone
\* in posts.
C14_Witness ==
    /\ nextId = 3
    /\ Cardinality(store) = 1
    /\ Len(posts) = 1
    /\ posts[1].id = 2
    /\ \E d \in store : PostOf(d) = posts[1] /\ d.ns = userId
    /\ \E s \in subs : s.st = "live" /\ s.uid = userId

\* C15: at most one subscription of the feed is open: when a run of the listener
\* effect opens one, the one of the previous run has been closed.
C15_OneSubscription == Cardinality(subs) <= 1

\* C15 witness: the subscription of the anonymous user delivered a post and was
\* replaced, the userId having changed, by the one of the token user, which has
\* not delivered yet.
C15_Witness ==
    /\ userId = "tok"
    /\ subs = {[uid |-> "tok", st |-> "subscribing"]}
    /\ posts # <<>>
    /\ \E d \in store : d.ns = "anon" /\ d.id = posts[1].id

\* C16 (as claimed): while a subscription is open, posts holds no document of the
\* collection of another user, which only a closed subscription can have
\* delivered.
C16_NoStaleDocuments ==
    \A s \in subs : \A i \in 1..Len(posts) :
        \A d \in store : d.id = posts[i].id => d.ns = s.uid

\* C17 (as claimed): postToDelete is non-null exactly when the confirmation
\* prompt is open; after a cancel it is none.
C17_PendingIffPromptOpen == (postToDelete # NoId) <=> showDeleteModal

\* C18 (as claimed): when the initial token is valid (its sign-in has resolved
\* and the token user is the identity), signInAnonymously has not been invoked:
\* no anonymous sign-in is in flight.
C18_NoAnonymousWithCredential == ~(userId = "tok" /\ anonPending)

\* C19 (as claimed): when an addDoc or an updateDoc resolves while the edit form
\* holds the Draft of another post than the one of the call, the step leaves that
\* Draft as it is.
C19_ResolutionSparesOtherDraft ==
    [][\A c \in inflight :
          ((UpdateDocOk(c) \/ AddDocOk(c))
               /\ editingPost # NullPost /\ editingPost.id # c.id)
              => editingPost' = editingPost]_vars

=============================================================================
